---------------------------- MODULE Spec2Model ----------------------------
(***************************************************************************)
(* Model of backend-examples/python-fastapi/main.py: the FastAPI proxy     *)
(* that translates the nine payment operations into iyzico SDK calls and   *)
(* normalises the processor's replies.                                     *)
(*                                                                         *)
(* Python values are tagged records, so that None, str, float, int, list   *)
(* and dict stay distinguishable (isinstance, truthiness, dict.get):       *)
(*   None                     [t |-> "None"]                               *)
(*   Str(s)                   a str whose text is not a numeral            *)
(*   Txt(cs)                  a str spelled out character by character     *)
(*   Ser(j)                   a str that is the JSON text of value j       *)
(*   BadJson                  a str that is not JSON                       *)
(*   Float(h)                 a float, h counting hundredths               *)
(*   PyInt(n), List(l), Dict(d)   int, list, dict (d a function on its keys) *)
(* The nested card, buyer and basketItems objects of the request models    *)
(* are copied field by field into the payload and read by no branch; they  *)
(* are left out of the records below.                                      *)
(***************************************************************************)
EXTENDS Integers, Sequences, FiniteSets, TLC

\* ------------------------------------------------------------ bounds
\* Concurrent requests in flight at once.
NumSlots == 2
\* Distinct transaction / order / card identifiers.
NumIds == 2
\* Largest magnitude of an amount the wide input set renders, in units.
MaxUnits == 2

\* ------------------------------------------------------- Python values
None == [t |-> "None"]
Str(s) == [t |-> "str", s |-> s]
Txt(cs) == [t |-> "str", c |-> cs]
Ser(j) == [t |-> "str", j |-> j]
BadJson == [t |-> "str", bad |-> TRUE]
Float(h) == [t |-> "float", h |-> h]
PyInt(n) == [t |-> "int", n |-> n]
List(l) == [t |-> "list", l |-> l]
Dict(d) == [t |-> "dict", d |-> d]
EmptyDict == Dict(<<>>)

\* The result of an expression that may raise: a value, or the exception
\* with the text str(e) gives.
Ok(v) == [ok |-> TRUE, v |-> v]
Raise(msg) == [ok |-> FALSE, msg |-> msg]

\* bool(v): Python truthiness.
Truthy(v) ==
    CASE v.t = "None" -> FALSE
      [] v.t = "str" -> IF "s" \in DOMAIN v THEN v.s # ""
                        ELSE IF "c" \in DOMAIN v THEN v.c # <<>>
                        ELSE TRUE
      [] v.t = "float" -> v.h # 0
      [] v.t = "int" -> v.n # 0
      [] v.t = "list" -> v.l # <<>>
      [] v.t = "dict" -> DOMAIN v.d # {}

\* a or b
PyOr(a, b) == IF Truthy(a) THEN a ELSE b

\* d.get(k, default) on the function d of a dict.
Get(d, k, default) == IF k \in DOMAIN d THEN d[k] ELSE default

\* result.get(k, default) on any value: only a dict has .get.
HasGet(v) == v.t = "dict"

\* ---------------------------------------------------- str() and float()
Digits == <<"0", "1", "2", "3", "4", "5", "6", "7", "8", "9">>
IsDigit(c) == \E i \in 1..10 : Digits[i] = c
DigitVal(c) == (CHOOSE i \in 1..10 : Digits[i] = c) - 1

RECURSIVE NatStr(_)
NatStr(n) == IF n < 10 THEN <<Digits[n + 1]>>
             ELSE Append(NatStr(n \div 10), Digits[(n % 10) + 1])

RECURSIVE NatVal(_)
NatVal(cs) == IF cs = <<>> THEN 0
              ELSE NatVal(SubSeq(cs, 1, Len(cs) - 1)) * 10 + DigitVal(cs[Len(cs)])

\* str(x) of a float: the shortest decimal that reads back, always with a
\* fractional part ("100.0", "0.5", "12.34", "-0.5").
str_float(x) ==
    LET a == IF x.h < 0 THEN 0 - x.h ELSE x.h
        fr == a % 100
        frac == IF fr % 10 = 0 THEN <<Digits[(fr \div 10) + 1]>>
                ELSE <<Digits[(fr \div 10) + 1], Digits[(fr % 10) + 1]>>
        sign == IF x.h < 0 THEN <<"-">> ELSE <<>>
    IN  Txt(sign \o NatStr(a \div 100) \o <<".">> \o frac)

\* str(n) of an int.
str_int(n) == Txt((IF n.n < 0 THEN <<"-">> ELSE <<>>)
                  \o NatStr(IF n.n < 0 THEN 0 - n.n ELSE n.n))

\* float(text) of a spelled str: [-]digits[.digits], at most two fractional
\* digits (the model's floats count hundredths); anything else is not a
\* numeral of the modelled alphabet.
ParseDecimal(cs) ==
    LET neg == cs # <<>> /\ cs[1] = "-"
        body == IF neg THEN Tail(cs) ELSE cs
        dots == {i \in 1..Len(body) : body[i] = "."}
        dot == IF dots = {} THEN Len(body) + 1 ELSE CHOOSE i \in dots : TRUE
        ip == SubSeq(body, 1, dot - 1)
        fp == SubSeq(body, dot + 1, Len(body))
        wellFormed == /\ Cardinality(dots) <= 1
                      /\ \A i \in 1..Len(ip) : IsDigit(ip[i])
                      /\ \A i \in 1..Len(fp) : IsDigit(fp[i])
                      /\ Len(ip) + Len(fp) >= 1
                      /\ Len(fp) <= 2
        mag == NatVal(ip) * 100
               + (IF Len(fp) = 0 THEN 0
                  ELSE IF Len(fp) = 1 THEN DigitVal(fp[1]) * 10
                  ELSE NatVal(fp))
    IN  IF wellFormed THEN Ok(Float(IF neg THEN 0 - mag ELSE mag))
        ELSE Raise(Str("could not convert string to float"))

\* float(v)
float(v) ==
    CASE v.t = "float" -> Ok(v)
      [] v.t = "int" -> Ok(Float(v.n * 100))
      [] v.t = "str" -> IF "c" \in DOMAIN v THEN ParseDecimal(v.c)
                        ELSE Raise(Str("could not convert string to float"))
      [] OTHER -> Raise(Str("float() argument must be a string or a real number"))

\* json.loads(s) of a str.
json_loads(s) == IF "j" \in DOMAIN s THEN Ok(s.j)
                 ELSE Raise(Str("Expecting value: line 1 column 1 (char 0)"))

\* ------------------------------------------------------ helper functions
\* Mutant of map_currency: an unrecognized currency is passed through.
map_currency_passthrough(currency) ==
    CASE currency = Str("tryLira") -> Str("TRY")
      [] currency = Str("usd") -> Str("USD")
      [] currency = Str("eur") -> Str("EUR")
      [] currency = Str("gbp") -> Str("GBP")
      [] OTHER -> currency

\* map_currency(currency): mapping.get(currency, "TRY").
map_currency(currency) ==
    CASE currency = Str("tryLira") -> Str("TRY")
      [] currency = Str("usd") -> Str("USD")
      [] currency = Str("eur") -> Str("EUR")
      [] currency = Str("gbp") -> Str("GBP")
      [] OTHER -> Str("TRY")

\* map_payment_request(req): the iyzico payload of a PaymentRequest.
map_payment_request(req) ==
    LET paid_price == PyOr(req.paidPrice, req.amount)
    IN  [locale |-> Str("tr"),
         conversationId |-> req.orderId,
         price |-> str_float(req.amount),
         paidPrice |-> str_float(paid_price),
         currency |-> map_currency(req.currency),
         installment |-> str_int(req.installment),
         basketId |-> req.orderId,
         paymentChannel |-> Str("WEB"),
         paymentGroup |-> Str("PRODUCT")]

AttributeError == Raise(Str("object has no attribute 'get'"))

\* map_payment_response(result): the PaymentResult of a processor result, or
\* the exception its evaluation raises (amount is evaluated before paidAmount).
map_payment_response(result) ==
    IF ~HasGet(result) THEN AttributeError
    ELSE LET d == result.d
             amount == float(Get(d, "price", PyInt(0)))
             paidAmount == float(Get(d, "paidPrice", PyInt(0)))
         IN  IF Get(d, "status", None) = Str("success")
             THEN IF ~amount.ok THEN amount
                  ELSE IF ~paidAmount.ok THEN paidAmount
                  ELSE Ok([success |-> TRUE,
                           transactionId |-> Get(d, "paymentId", None),
                           paymentId |-> Get(d, "paymentId", None),
                           amount |-> amount.v,
                           paidAmount |-> paidAmount.v,
                           installment |-> Get(d, "installment", None),
                           cardType |-> Get(d, "cardType", None),
                           cardAssociation |-> Get(d, "cardAssociation", None),
                           binNumber |-> Get(d, "binNumber", None),
                           lastFourDigits |-> Get(d, "lastFourDigits", None)])
             ELSE Ok([success |-> FALSE,
                      errorCode |-> Get(d, "errorCode", Str("unknown")),
                      errorMessage |-> Get(d, "errorMessage", Str("Unknown error"))])

\* -------------------------------------------------- what a handler ends in
\* A returned body (HTTP 200), a raised HTTPException(status_code, detail),
\* or the framework's rejection of an input that fails validation.
Return(body) == [code |-> 200, kind |-> "return", detail |-> body]
HTTPException(status_code, detail) ==
    [code |-> status_code, kind |-> "HTTPException", detail |-> detail]
\* FastAPI's default handler of a RequestValidationError: 422 with the list
\* of the fields that failed; no handler of the application replaces it.
RequestValidationError(loc) ==
    [code |-> 422, kind |-> "RequestValidationError",
     detail |-> <<[loc |-> loc, msg |-> "validation failed"]>>]

\* Mutant of ServerError: the exception's description is dropped.
ServerError_generic(e) ==
    HTTPException(500, [success |-> FALSE,
                        errorCode |-> Str("server_error"),
                        errorMessage |-> Str("Internal Server Error")])

\* except Exception as e: HTTPException(500, {... "server_error", str(e)}).
ServerError(e) ==
    HTTPException(500, [success |-> FALSE,
                        errorCode |-> Str("server_error"),
                        errorMessage |-> e.msg])

\* The failure detail of the handlers that build it inline.
Failure(d, code, message) ==
    HTTPException(400, [success |-> FALSE,
                        errorCode |-> Get(d, "errorCode", Str(code)),
                        errorMessage |-> Get(d, "errorMessage", Str(message))])

\* The processor call and what follows it up to the parsed result:
\*   x = iyzipay.X().create(iyzico_request, options); result = x.read()
\*   if isinstance(result, str): result = json.loads(result)
\* outcome is what the SDK did: raised (k = "raise", msg) or answered
\* (k = "value", v: a structured value or a str holding JSON).
ReadResult(outcome) ==
    IF outcome.k = "raise" THEN Raise(outcome.msg)
    ELSE IF outcome.v.t = "str" THEN json_loads(outcome.v)
    ELSE Ok(outcome.v)

\* ------------------------------------------------------------ validation
\* What FastAPI does before the handler runs: the pydantic model of the body
\* (required fields, defaults) or the Query constraints. args is the
\* function of the inputs the caller sent.
Invalid(loc) == [ok |-> FALSE, loc |-> loc]

Missing(args, required) == required \ DOMAIN args

PaymentRequest(args) ==
    IF Missing(args, {"orderId", "amount"}) # {}
    THEN Invalid(Missing(args, {"orderId", "amount"}))
    ELSE Ok([orderId |-> args["orderId"],
             amount |-> args["amount"],
             paidPrice |-> Get(args, "paidPrice", None),
             currency |-> Get(args, "currency", Str("tryLira")),
             installment |-> Get(args, "installment", PyInt(1)),
             callbackUrl |-> Get(args, "callbackUrl", None)])

RefundRequest(args) ==
    IF Missing(args, {"transactionId", "amount"}) # {}
    THEN Invalid(Missing(args, {"transactionId", "amount"}))
    ELSE Ok([transactionId |-> args["transactionId"], amount |-> args["amount"]])

ChargeRequest(args) ==
    IF Missing(args, {"cardToken", "cardUserKey", "orderId", "amount"}) # {}
    THEN Invalid(Missing(args, {"cardToken", "cardUserKey", "orderId", "amount"}))
    ELSE Ok([cardToken |-> args["cardToken"],
             cardUserKey |-> args["cardUserKey"],
             orderId |-> args["orderId"],
             amount |-> args["amount"]])

ThreeDSCompleteRequest(args) ==
    IF Missing(args, {"transactionId"}) # {}
    THEN Invalid({"transactionId"})
    ELSE Ok([transactionId |-> args["transactionId"],
             callbackData |-> Get(args, "callbackData", None)])

\* Mutant of InstallmentsQuery: min_length is not enforced.
InstallmentsQuery_no_min_length(args) ==
    IF Missing(args, {"binNumber", "amount"}) # {}
    THEN Invalid(Missing(args, {"binNumber", "amount"}))
    ELSE IF Len(args["binNumber"].c) > 8
    THEN Invalid({"binNumber"})
    ELSE IF ~(args["amount"].h > 0)
    THEN Invalid({"amount"})
    ELSE Ok([binNumber |-> args["binNumber"], amount |-> args["amount"]])

\* binNumber: str = Query(..., min_length=6, max_length=8),
\* amount: float = Query(..., gt=0)
InstallmentsQuery(args) ==
    IF Missing(args, {"binNumber", "amount"}) # {}
    THEN Invalid(Missing(args, {"binNumber", "amount"}))
    ELSE IF Len(args["binNumber"].c) < 6 \/ Len(args["binNumber"].c) > 8
    THEN Invalid({"binNumber"})
    ELSE IF ~(args["amount"].h > 0)
    THEN Invalid({"amount"})
    ELSE Ok([binNumber |-> args["binNumber"], amount |-> args["amount"]])

\* payment_id: str (path)
StatusPath(args) ==
    IF Missing(args, {"payment_id"}) # {} THEN Invalid({"payment_id"})
    ELSE Ok([payment_id |-> args["payment_id"]])

\* cardUserKey: str = Query(...)
CardsQuery(args) ==
    IF Missing(args, {"cardUserKey"}) # {} THEN Invalid({"cardUserKey"})
    ELSE Ok([cardUserKey |-> args["cardUserKey"]])

\* card_token: str (path), cardUserKey: str = Query(...)
DeleteCardQuery(args) ==
    IF Missing(args, {"card_token", "cardUserKey"}) # {}
    THEN Invalid(Missing(args, {"card_token", "cardUserKey"}))
    ELSE Ok([card_token |-> args["card_token"], cardUserKey |-> args["cardUserKey"]])

Ops == {"create_payment", "init_3ds_payment", "complete_3ds_payment",
        "get_installments", "refund_payment", "get_payment_status",
        "list_saved_cards", "charge_saved_card", "delete_saved_card"}

Validate(o, args) ==
    CASE o \in {"create_payment", "init_3ds_payment"} -> PaymentRequest(args)
      [] o = "complete_3ds_payment" -> ThreeDSCompleteRequest(args)
      [] o = "get_installments" -> InstallmentsQuery(args)
      [] o = "refund_payment" -> RefundRequest(args)
      [] o = "get_payment_status" -> StatusPath(args)
      [] o = "list_saved_cards" -> CardsQuery(args)
      [] o = "charge_saved_card" -> ChargeRequest(args)
      [] o = "delete_saved_card" -> DeleteCardQuery(args)

\* ------------------------------------------------------- request builders
\* The iyzico_request each handler builds; now is int(time.time()).
create_payment_request(request, now) == map_payment_request(request)

init_3ds_payment_request(request, now) ==
    ("callbackUrl" :> request.callbackUrl) @@ map_payment_request(request)

\* Mutant of complete_3ds_payment_request: keyed on transactionId always.
complete_3ds_payment_request_by_transaction(request, now) ==
    [locale |-> Str("tr"),
     conversationId |-> request.transactionId,
     paymentId |-> request.transactionId]

complete_3ds_payment_request(request, now) ==
    [locale |-> Str("tr"),
     conversationId |-> request.transactionId,
     paymentId |-> Get(PyOr(request.callbackData, EmptyDict).d,
                       "paymentId", request.transactionId)]

get_installments_request(request, now) ==
    [locale |-> Str("tr"),
     conversationId |-> str_int(PyInt(now)),
     binNumber |-> request.binNumber,
     price |-> str_float(request.amount)]

refund_payment_request(request, now) ==
    [locale |-> Str("tr"),
     conversationId |-> str_int(PyInt(now)),
     paymentTransactionId |-> request.transactionId,
     price |-> str_float(request.amount),
     currency |-> Str("TRY")]

get_payment_status_request(request, now) ==
    [locale |-> Str("tr"),
     conversationId |-> str_int(PyInt(now)),
     paymentId |-> request.payment_id]

list_saved_cards_request(request, now) ==
    [locale |-> Str("tr"),
     conversationId |-> str_int(PyInt(now)),
     cardUserKey |-> request.cardUserKey]

charge_saved_card_request(request, now) ==
    [locale |-> Str("tr"),
     conversationId |-> request.orderId,
     price |-> str_float(request.amount),
     paidPrice |-> str_float(request.amount),
     currency |-> Str("TRY"),
     installment |-> Txt(<<"1">>),
     basketId |-> request.orderId,
     paymentChannel |-> Str("WEB"),
     paymentGroup |-> Str("PRODUCT"),
     paymentCard |-> [cardToken |-> request.cardToken,
                      cardUserKey |-> request.cardUserKey]]

delete_saved_card_request(request, now) ==
    [locale |-> Str("tr"),
     conversationId |-> str_int(PyInt(now)),
     cardToken |-> request.card_token,
     cardUserKey |-> request.cardUserKey]

BuildRequest(o, request, now) ==
    CASE o = "create_payment" -> create_payment_request(request, now)
      [] o = "init_3ds_payment" -> init_3ds_payment_request(request, now)
      [] o = "complete_3ds_payment" -> complete_3ds_payment_request(request, now)
      [] o = "get_installments" -> get_installments_request(request, now)
      [] o = "refund_payment" -> refund_payment_request(request, now)
      [] o = "get_payment_status" -> get_payment_status_request(request, now)
      [] o = "list_saved_cards" -> list_saved_cards_request(request, now)
      [] o = "charge_saved_card" -> charge_saved_card_request(request, now)
      [] o = "delete_saved_card" -> delete_saved_card_request(request, now)

\* --------------------------------------------------------------- handlers
\* Each handler from the processor call on: outcome is what the SDK call and
\* read() did; the value is what the handler ends in.
IsSuccess(d) == Get(d, "status", None) = Str("success")

\* The handlers that normalise with map_payment_response.
PaymentHandler(outcome) ==
    LET result == ReadResult(outcome)
        response == map_payment_response(result.v)
    IN  IF ~result.ok THEN ServerError(result)
        ELSE IF ~response.ok THEN ServerError(response)
        ELSE IF ~response.v.success THEN HTTPException(400, response.v)
        ELSE Return(response.v)

create_payment(outcome) == PaymentHandler(outcome)

complete_3ds_payment(outcome) == PaymentHandler(outcome)

charge_saved_card(outcome) == PaymentHandler(outcome)

init_3ds_payment(outcome) ==
    LET result == ReadResult(outcome)
    IN  IF ~result.ok THEN ServerError(result)
        ELSE IF ~HasGet(result.v) THEN ServerError(AttributeError)
        ELSE IF IsSuccess(result.v.d)
        THEN Return([success |-> TRUE,
                     status |-> Str("pending"),
                     transactionId |-> Get(result.v.d, "conversationId", None),
                     htmlContent |-> Get(result.v.d, "threeDSHtmlContent", None)])
        ELSE Failure(result.v.d, "3ds_init_failed", "3DS initialization failed")

\* One element of the options comprehension of get_installments.
InstallmentOption(opt) ==
    IF ~HasGet(opt) THEN AttributeError
    ELSE LET installmentPrice == float(Get(opt.d, "installmentPrice", PyInt(0)))
             totalPrice == float(Get(opt.d, "totalPrice", PyInt(0)))
         IN  IF ~installmentPrice.ok THEN installmentPrice
             ELSE IF ~totalPrice.ok THEN totalPrice
             ELSE Ok([installmentNumber |-> Get(opt.d, "installmentNumber", None),
                      installmentPrice |-> installmentPrice.v,
                      totalPrice |-> totalPrice.v])

\* [ {...} for opt in detail.get("installmentPrices", []) ]: the list, or the
\* first exception an element raises; iterating a value that is no list raises.
InstallmentOptions(xs) ==
    IF xs.t # "list" THEN Raise(Str("object is not iterable"))
    ELSE LET bad == {i \in 1..Len(xs.l) : ~InstallmentOption(xs.l[i]).ok}
         IN  IF bad # {}
             THEN InstallmentOption(xs.l[CHOOSE i \in bad : \A j \in bad : i <= j])
             ELSE Ok(List([i \in 1..Len(xs.l) |-> InstallmentOption(xs.l[i]).v]))

get_installments(outcome) ==
    LET result == ReadResult(outcome)
        d == result.v.d
        details == Get(d, "installmentDetails", List(<<>>))
        detail == details.l[1]
        options == InstallmentOptions(Get(detail.d, "installmentPrices", List(<<>>)))
    IN  IF ~result.ok THEN ServerError(result)
        ELSE IF ~HasGet(result.v) THEN ServerError(AttributeError)
        ELSE IF IsSuccess(d) /\ Truthy(details)
        THEN IF details.t # "list"
             THEN ServerError(Raise(Str("object is not subscriptable")))
             ELSE IF ~HasGet(detail) THEN ServerError(AttributeError)
             ELSE IF ~options.ok THEN ServerError(options)
             ELSE Return([success |-> TRUE,
                          binNumber |-> Get(detail.d, "binNumber", None),
                          bankName |-> Get(detail.d, "bankName", None),
                          bankCode |-> Get(detail.d, "bankCode", None),
                          cardType |-> Get(detail.d, "cardType", None),
                          cardAssociation |-> Get(detail.d, "cardAssociation", None),
                          options |-> options.v])
        ELSE Failure(d, "no_installments", "No installment options found")

refund_payment(outcome) ==
    LET result == ReadResult(outcome)
        d == result.v.d
        refundedAmount == float(Get(d, "price", PyInt(0)))
    IN  IF ~result.ok THEN ServerError(result)
        ELSE IF ~HasGet(result.v) THEN ServerError(AttributeError)
        ELSE IF IsSuccess(d)
        THEN IF ~refundedAmount.ok THEN ServerError(refundedAmount)
             ELSE Return([success |-> TRUE,
                          refundId |-> Get(d, "paymentTransactionId", None),
                          refundedAmount |-> refundedAmount.v])
        ELSE Failure(d, "refund_failed", "Refund failed")

get_payment_status(outcome) ==
    LET result == ReadResult(outcome)
        d == result.v.d
    IN  IF ~result.ok THEN ServerError(result)
        ELSE IF ~HasGet(result.v) THEN ServerError(AttributeError)
        ELSE IF IsSuccess(d)
        THEN Return([success |-> TRUE,
                     status |-> IF Get(d, "paymentStatus", None) = Str("1")
                                THEN Str("success") ELSE Str("pending")])
        ELSE Failure(d, "status_check_failed", "Status check failed")

\* One element of the cards comprehension of list_saved_cards.
SavedCard(card) ==
    IF ~HasGet(card) THEN AttributeError
    ELSE Ok([cardToken |-> Get(card.d, "cardToken", None),
             cardAlias |-> Get(card.d, "cardAlias", None),
             binNumber |-> Get(card.d, "binNumber", None),
             lastFourDigits |-> Get(card.d, "lastFourDigits", None),
             cardType |-> Get(card.d, "cardType", None),
             cardAssociation |-> Get(card.d, "cardAssociation", None)])

\* [ {...} for card in result.get("cardDetails", []) ]
SavedCards(xs) ==
    IF xs.t # "list" THEN Raise(Str("object is not iterable"))
    ELSE LET bad == {i \in 1..Len(xs.l) : ~SavedCard(xs.l[i]).ok}
         IN  IF bad # {}
             THEN SavedCard(xs.l[CHOOSE i \in bad : \A j \in bad : i <= j])
             ELSE Ok(List([i \in 1..Len(xs.l) |-> SavedCard(xs.l[i]).v]))

list_saved_cards(outcome) ==
    LET result == ReadResult(outcome)
        d == result.v.d
        cards == SavedCards(Get(d, "cardDetails", List(<<>>)))
    IN  IF ~result.ok THEN ServerError(result)
        ELSE IF ~HasGet(result.v) THEN ServerError(AttributeError)
        ELSE IF IsSuccess(d)
        THEN IF ~cards.ok THEN ServerError(cards)
             ELSE Return([success |-> TRUE, cards |-> cards.v])
        ELSE Failure(d, "cards_list_failed", "Failed to list cards")

delete_saved_card(outcome) ==
    LET result == ReadResult(outcome)
        d == result.v.d
    IN  IF ~result.ok THEN ServerError(result)
        ELSE IF ~HasGet(result.v) THEN ServerError(AttributeError)
        ELSE IF IsSuccess(d) THEN Return([success |-> TRUE])
        ELSE Failure(d, "card_delete_failed", "Failed to delete card")

Respond(o, outcome) ==
    CASE o = "create_payment" -> create_payment(outcome)
      [] o = "init_3ds_payment" -> init_3ds_payment(outcome)
      [] o = "complete_3ds_payment" -> complete_3ds_payment(outcome)
      [] o = "get_installments" -> get_installments(outcome)
      [] o = "refund_payment" -> refund_payment(outcome)
      [] o = "get_payment_status" -> get_payment_status(outcome)
      [] o = "list_saved_cards" -> list_saved_cards(outcome)
      [] o = "charge_saved_card" -> charge_saved_card(outcome)
      [] o = "delete_saved_card" -> delete_saved_card(outcome)

\* ----------------------------------------------------------------- inputs
\* Three input regimes: "thin" (one identifier and a few replies per
\* operation, for the interleavings of NumSlots concurrent requests), "flow"
\* (the same over NumIds identifiers, for sequences of 3DS calls) and "wide"
\* (a single request over the whole range of values).
IdNames == <<"T1", "T2", "T3", "T4">>
Ids == {Str(IdNames[i]) : i \in 1..NumIds}
Id1 == Str(IdNames[1])
IdsOf(w) == IF w = "thin" THEN {Id1} ELSE Ids
Narrow(w) == w \in {"thin", "flow"}

Clock(w) == IF Narrow(w) THEN {1700000000} ELSE {1700000000, 1700000001}

\* Amounts in hundredths: 0 .. MaxUnits in steps of 0.25, 12.34 and 100.0.
Amounts(w) ==
    IF Narrow(w) THEN {10000}
    ELSE {25 * k : k \in 0..(4 * MaxUnits)} \cup {1234, 10000}

Currencies == {Str("tryLira"), Str("usd"), Str("eur"), Str("gbp"),
               Str("TRY"), Str("jpy"), Str("")}

BinDigits == <<"4", "5", "4", "3", "5", "9", "0", "1", "2">>
Bin(n) == Txt(SubSeq(BinDigits, 1, n))

PaymentArgs(w) ==
    IF Narrow(w)
    THEN {("orderId" :> id) @@ ("amount" :> Float(10000)) : id \in IdsOf(w)}
    ELSE {("orderId" :> Id1) @@ ("amount" :> Float(a)) : a \in Amounts(w)}
         \cup {("orderId" :> Id1) @@ ("amount" :> Float(a)) @@ ("paidPrice" :> None)
               : a \in Amounts(w)}
         \cup {("orderId" :> Id1) @@ ("amount" :> Float(a)) @@ ("paidPrice" :> Float(p))
               : a \in Amounts(w), p \in Amounts(w)}
         \cup {("orderId" :> Id1) @@ ("amount" :> Float(10000)) @@ ("currency" :> c)
               : c \in Currencies}
         \cup {("orderId" :> Id1) @@ ("amount" :> Float(10000))
               @@ ("installment" :> PyInt(3)),
               ("orderId" :> Id1), ("amount" :> Float(10000))}

CallbackData(w) ==
    IF Narrow(w) THEN {Dict("paymentId" :> Str("P9"))}
    ELSE {None, EmptyDict, Dict("paymentId" :> Str("P9")), Dict("paymentId" :> None),
          Dict("mdStatus" :> Str("1")),
          Dict(("paymentId" :> Str("P9")) @@ ("mdStatus" :> Str("1")))}
         \cup {Dict("paymentId" :> id) : id \in Ids}

Args(o, w) ==
    CASE o = "create_payment" ->
            IF Narrow(w) THEN {("orderId" :> Id1) @@ ("amount" :> Float(10000)),
                                ("orderId" :> Id1)}
            ELSE PaymentArgs(w)
      [] o = "init_3ds_payment" ->
            {a @@ ("callbackUrl" :> Str("https://shop.example/cb")) : a \in PaymentArgs(w)}
            \cup (IF Narrow(w) THEN {} ELSE PaymentArgs(w))
      [] o = "complete_3ds_payment" ->
            IF Narrow(w)
            THEN {("transactionId" :> id) @@ ("callbackData" :> c)
                  : id \in IdsOf(w), c \in CallbackData(w)}
            ELSE {("transactionId" :> id) : id \in Ids}
                 \cup {("transactionId" :> id) @@ ("callbackData" :> c)
                       : id \in Ids, c \in CallbackData(w)}
                 \cup {<<>>}
      [] o = "get_installments" ->
            IF Narrow(w)
            THEN {("binNumber" :> Bin(6)) @@ ("amount" :> Float(10000)),
                  ("binNumber" :> Bin(5)) @@ ("amount" :> Float(10000))}
            ELSE {("binNumber" :> Bin(n)) @@ ("amount" :> Float(a))
                  : n \in 5..9, a \in Amounts(w) \cup {-50}}
                 \cup {("binNumber" :> Bin(6)), ("amount" :> Float(10000))}
      [] o = "refund_payment" ->
            {("transactionId" :> Id1) @@ ("amount" :> Float(a)) : a \in Amounts(w)}
            \cup (IF Narrow(w) THEN {} ELSE {("transactionId" :> Id1)})
      [] o = "get_payment_status" -> {("payment_id" :> Id1)}
      [] o = "list_saved_cards" ->
            {("cardUserKey" :> Id1)} \cup (IF Narrow(w) THEN {} ELSE {<<>>})
      [] o = "charge_saved_card" ->
            {("cardToken" :> Id1) @@ ("cardUserKey" :> Str("U1"))
             @@ ("orderId" :> Id1) @@ ("amount" :> Float(a))
             : a \in Amounts(w)}
            \cup (IF Narrow(w) THEN {} ELSE {("cardToken" :> Id1) @@ ("orderId" :> Id1)})
      [] o = "delete_saved_card" ->
            {("card_token" :> Id1) @@ ("cardUserKey" :> Str("U1"))}
            \cup (IF Narrow(w) THEN {} ELSE {("card_token" :> Id1)})

\* What the processor may answer.
ErrorCodes(w) ==
    IF Narrow(w) THEN {("errorCode" :> Str("5006"))}
    ELSE {<<>>, ("errorCode" :> None), ("errorCode" :> Str("")),
          ("errorCode" :> Str("5006"))}

ErrorMessages(w) ==
    IF Narrow(w) THEN {("errorMessage" :> Str("Invalid card"))}
    ELSE {<<>>, ("errorMessage" :> None), ("errorMessage" :> Str("Invalid card"))}

ErrorFields(w) == {c @@ m : c \in ErrorCodes(w), m \in ErrorMessages(w)}

FailureDicts(w) ==
    {("status" :> Str("failure")) @@ e : e \in ErrorFields(w)}
    \cup (IF Narrow(w) THEN {}
          ELSE {<<>>, ("status" :> None), ("errorCode" :> Str("5006"))})

CardFields ==
    ("installment" :> PyInt(1)) @@ ("cardType" :> Str("CREDIT_CARD"))
    @@ ("cardAssociation" :> Str("VISA")) @@ ("binNumber" :> Bin(6))
    @@ ("lastFourDigits" :> Txt(<<"0", "0", "0", "8">>))

\* The money fields of a success reply: an echo of the payload's strings, and
\* (wide) absent, null and non-numeral values.
MoneyFields(payload, w) ==
    LET price == Get(payload, "price", str_float(Float(10000)))
        paidPrice == Get(payload, "paidPrice", price)
        echo == ("price" :> price) @@ ("paidPrice" :> paidPrice)
    IN  IF Narrow(w) THEN {echo}
        ELSE {echo, <<>>, ("price" :> price), ("paidPrice" :> paidPrice),
              ("price" :> None) @@ ("paidPrice" :> paidPrice),
              ("price" :> price) @@ ("paidPrice" :> None),
              ("price" :> Str("abc")) @@ ("paidPrice" :> paidPrice),
              ("price" :> Txt(<<"7">>)) @@ ("paidPrice" :> Txt(<<"7", ".", "5">>))}

InstallmentPrice(n, each, total) ==
    Dict(("installmentNumber" :> PyInt(n)) @@ ("installmentPrice" :> each)
         @@ ("totalPrice" :> total))

InstallmentDetail(prices) ==
    Dict(("binNumber" :> Bin(6)) @@ ("bankName" :> Str("Bank")) @@ ("bankCode" :> PyInt(46))
         @@ ("cardType" :> Str("CREDIT_CARD")) @@ ("cardAssociation" :> Str("VISA"))
         @@ prices)

SavedCardDetail(id) ==
    Dict(("cardToken" :> id) @@ ("cardAlias" :> Str("my card")) @@ ("binNumber" :> Bin(6))
         @@ ("lastFourDigits" :> Txt(<<"0", "0", "0", "8">>))
         @@ ("cardType" :> Str("CREDIT_CARD")) @@ ("cardAssociation" :> Str("VISA")))

\* The fields of a reply with status "success", besides the status.
SuccessFields(o, payload, w) ==
    CASE o \in {"create_payment", "complete_3ds_payment", "charge_saved_card"} ->
            {("paymentId" :> Str("PAY1")) @@ m @@ c
             : m \in MoneyFields(payload, w),
               c \in IF Narrow(w) THEN {CardFields} ELSE {CardFields, <<>>}}
            \cup (IF Narrow(w) THEN {} ELSE MoneyFields(payload, w))
      [] o = "init_3ds_payment" ->
            {("conversationId" :> payload.conversationId)
             @@ ("threeDSHtmlContent" :> Str("PGh0bWw+"))}
            \cup (IF Narrow(w) THEN {}
                  ELSE {<<>>, ("conversationId" :> Str("X9")),
                        ("threeDSHtmlContent" :> Str("PGh0bWw+"))})
      [] o = "get_installments" ->
            {("installmentDetails" :> List(<<InstallmentDetail(
                ("installmentPrices" :> List(<<InstallmentPrice(1, payload.price, payload.price)>>)))>>))}
            \cup (IF Narrow(w) THEN {}
                  ELSE {("installmentDetails" :> List(<<>>)) @@ e : e \in ErrorFields(w)}
                       \cup {<<>>, ("installmentDetails" :> None),
                             ("installmentDetails" :> List(<<InstallmentDetail(<<>>)>>)),
                             ("installmentDetails" :> List(<<None>>)),
                             ("installmentDetails" :> List(<<InstallmentDetail(
                                 ("installmentPrices" :> None))>>)),
                             ("installmentDetails" :> List(<<InstallmentDetail(
                                 ("installmentPrices" :> List(<<
                                     InstallmentPrice(1, payload.price, payload.price),
                                     InstallmentPrice(2, None, payload.price)>>)))>>)),
                             ("installmentDetails" :> List(<<InstallmentDetail(
                                 ("installmentPrices" :> List(<<
                                     Dict("installmentNumber" :> PyInt(1))>>)))>>))})
      [] o = "refund_payment" ->
            {("paymentTransactionId" :> payload.paymentTransactionId) @@ m
             : m \in IF Narrow(w) THEN {("price" :> payload.price)}
                     ELSE {("price" :> payload.price), <<>>, ("price" :> None),
                           ("price" :> Str("abc"))}}
      [] o = "get_payment_status" ->
            IF Narrow(w) THEN {("paymentStatus" :> Str("1"))}
            ELSE {("paymentStatus" :> Str("1")), ("paymentStatus" :> Str("0")), <<>>}
      [] o = "list_saved_cards" ->
            IF Narrow(w) THEN {("cardDetails" :> List(<<SavedCardDetail(Id1)>>))}
            ELSE {("cardDetails" :> List(<<SavedCardDetail(Id1)>>)), <<>>,
                  ("cardDetails" :> List(<<>>)),
                  ("cardDetails" :> List(<<SavedCardDetail(Id1), Dict("cardToken" :> Id1)>>)),
                  ("cardDetails" :> List(<<None>>))}
      [] o = "delete_saved_card" -> {<<>>}

SuccessDicts(o, payload, w) ==
    {("status" :> Str("success")) @@ f : f \in SuccessFields(o, payload, w)}

RaiseOutcome == [k |-> "raise", msg |-> Str("Connection refused")]
Value(v) == [k |-> "value", v |-> v]

\* Everything the SDK call of operation o may do for the payload sent: raise,
\* or answer a structured value or a str (JSON of a value, or no JSON).
Outcomes(o, payload, w) ==
    LET dicts == SuccessDicts(o, payload, w) \cup FailureDicts(w)
    IN  {RaiseOutcome}
        \cup {Value(Dict(d)) : d \in dicts}
        \cup (IF w = "thin" THEN {}
              ELSE {Value(Ser(Dict(d))) : d \in dicts})
        \cup (IF Narrow(w) THEN {}
              ELSE {Value(Ser(Dict(d))) : d \in dicts}
                   \cup {Value(BadJson), Value(Ser(List(<<>>))), Value(None)})

\* ------------------------------------------------------------------ state
VARIABLES
    options,    \* the module-level credentials dict passed to every SDK call
    pc,         \* per slot: "idle", "called" (SDK call in flight), "done"
    op,         \* per slot: the handler serving the request
    args,       \* per slot: the inputs the caller sent
    sent,       \* per slot: the iyzico_request and options handed to the SDK
    outcome,    \* per slot: what the SDK call did
    response,   \* per slot: what the handler ended in
    calls,      \* per slot: SDK calls made for the request
    sessions    \* history, kept in FlowSpec: per identifier, the last 3DS step
                \* that succeeded (the code keeps no such record)

vars == <<options, pc, op, args, sent, outcome, response, calls, sessions>>

Slots == 1..NumSlots
Nil == [nil |-> TRUE]

\* options = {"api_key": os.getenv(...), "secret_key": ..., "base_url": ...}
LoadedOptions ==
    [api_key |-> Str("sandbox-api-key"),
     secret_key |-> Str("sandbox-secret-key"),
     base_url |-> Str("https://sandbox-api.iyzipay.com")]

Init ==
    /\ options = LoadedOptions
    /\ pc = [s \in Slots |-> "idle"]
    /\ op = [s \in Slots |-> ""]
    /\ args = [s \in Slots |-> <<>>]
    /\ sent = [s \in Slots |-> Nil]
    /\ outcome = [s \in Slots |-> Nil]
    /\ response = [s \in Slots |-> Nil]
    /\ calls = [s \in Slots |-> 0]
    /\ sessions = [id \in Ids |-> "none"]

\* When a slot takes a request: a slot serves one request after another; a
\* wide run serves a single request.
Ready(w) == IF Narrow(w) THEN {"idle", "done"} ELSE {"idle"}

\* A request for handler o arrives at slot s: the framework validates it; the
\* handler builds its iyzico_request and makes its SDK call, at which it
\* waits. An input that fails validation never reaches the handler.
Receive(s, o, w) ==
    /\ pc[s] \in Ready(w)
    /\ \E a \in Args(o, w), now \in Clock(w) :
          LET request == Validate(o, a)
          IN  /\ op' = [op EXCEPT ![s] = o]
              /\ args' = [args EXCEPT ![s] = a]
              /\ outcome' = [outcome EXCEPT ![s] = Nil]
              /\ IF request.ok
                 THEN /\ pc' = [pc EXCEPT ![s] = "called"]
                      /\ sent' = [sent EXCEPT ![s] =
                                    [iyzico_request |-> BuildRequest(o, request.v, now),
                                     options |-> options]]
                      /\ calls' = [calls EXCEPT ![s] = 1]
                      /\ response' = [response EXCEPT ![s] = Nil]
                 ELSE /\ pc' = [pc EXCEPT ![s] = "done"]
                      /\ sent' = [sent EXCEPT ![s] = Nil]
                      /\ calls' = [calls EXCEPT ![s] = 0]
                      /\ response' = [response EXCEPT ![s] =
                                        RequestValidationError(request.loc)]
    /\ UNCHANGED <<options, sessions>>

\* The identifier a 3DS request is about.
SessionId(o, a) == IF o = "init_3ds_payment" THEN a["orderId"] ELSE a["transactionId"]

\* Mutant of Finish: the parsed result is kept in a module-level variable, so
\* a handler may normalise the result another request left there.
Finish_shared_result(s, o, w) ==
    /\ pc[s] = "called"
    /\ op[s] = o
    /\ \E out \in Outcomes(o, sent[s].iyzico_request, w) :
          LET others == {t \in Slots \ {s} : outcome[t] # Nil}
              result == IF others = {} THEN out
                        ELSE outcome[CHOOSE t \in others : TRUE]
          IN  /\ outcome' = [outcome EXCEPT ![s] = out]
              /\ response' = [response EXCEPT ![s] = Respond(o, result)]
    /\ pc' = [pc EXCEPT ![s] = "done"]
    /\ UNCHANGED <<options, op, args, sent, calls, sessions>>

\* The SDK call of slot s comes back and the handler runs to its end.
Finish(s, o, w) ==
    /\ pc[s] = "called"
    /\ op[s] = o
    /\ \E out \in Outcomes(o, sent[s].iyzico_request, w) :
          /\ outcome' = [outcome EXCEPT ![s] = out]
          /\ response' = [response EXCEPT ![s] = Respond(o, out)]
          /\ sessions' =
                IF w = "flow" /\ Respond(o, out).code = 200
                THEN [sessions EXCEPT ![SessionId(o, args[s])] =
                        IF o = "init_3ds_payment" THEN "pending" ELSE "completed"]
                ELSE sessions
    /\ pc' = [pc EXCEPT ![s] = "done"]
    /\ UNCHANGED <<options, op, args, sent, calls>>

CreatePayment(s, w) ==
    Receive(s, "create_payment", w) \/ Finish(s, "create_payment", w)
Init3dsPayment(s, w) ==
    Receive(s, "init_3ds_payment", w) \/ Finish(s, "init_3ds_payment", w)
\* Mutant of Complete3dsPayment: the layer keeps the sessions itself and
\* answers a completion of a transaction that is not pending without
\* forwarding it.
Complete3dsPayment_local_sessions(s, w) ==
    \/ Finish(s, "complete_3ds_payment", w)
    \/ /\ pc[s] \in Ready(w)
       /\ \E a \in Args("complete_3ds_payment", w), now \in Clock(w) :
             LET request == Validate("complete_3ds_payment", a)
                 pending == request.ok /\ sessions[request.v.transactionId] = "pending"
             IN  /\ op' = [op EXCEPT ![s] = "complete_3ds_payment"]
                 /\ args' = [args EXCEPT ![s] = a]
                 /\ outcome' = [outcome EXCEPT ![s] = Nil]
                 /\ IF pending
                    THEN /\ pc' = [pc EXCEPT ![s] = "called"]
                         /\ sent' = [sent EXCEPT ![s] =
                                [iyzico_request |->
                                    BuildRequest("complete_3ds_payment", request.v, now),
                                 options |-> options]]
                         /\ calls' = [calls EXCEPT ![s] = 1]
                         /\ response' = [response EXCEPT ![s] = Nil]
                    ELSE /\ pc' = [pc EXCEPT ![s] = "done"]
                         /\ sent' = [sent EXCEPT ![s] = Nil]
                         /\ calls' = [calls EXCEPT ![s] = 0]
                         /\ response' = [response EXCEPT ![s] =
                                IF request.ok
                                THEN HTTPException(400,
                                        [success |-> FALSE,
                                         errorCode |-> Str("unknown_transaction"),
                                         errorMessage |-> Str("No pending 3DS session")])
                                ELSE RequestValidationError(request.loc)]
       /\ UNCHANGED <<options, sessions>>

Complete3dsPayment(s, w) ==
    Receive(s, "complete_3ds_payment", w) \/ Finish(s, "complete_3ds_payment", w)
GetInstallments(s, w) ==
    Receive(s, "get_installments", w) \/ Finish(s, "get_installments", w)
RefundPayment(s, w) ==
    Receive(s, "refund_payment", w) \/ Finish(s, "refund_payment", w)
GetPaymentStatus(s, w) ==
    Receive(s, "get_payment_status", w) \/ Finish(s, "get_payment_status", w)
ListSavedCards(s, w) ==
    Receive(s, "list_saved_cards", w) \/ Finish(s, "list_saved_cards", w)
ChargeSavedCard(s, w) ==
    Receive(s, "charge_saved_card", w) \/ Finish(s, "charge_saved_card", w)
DeleteSavedCard(s, w) ==
    Receive(s, "delete_saved_card", w) \/ Finish(s, "delete_saved_card", w)

Serve(s, w) ==
    \/ CreatePayment(s, w)
    \/ Init3dsPayment(s, w)
    \/ Complete3dsPayment(s, w)
    \/ GetInstallments(s, w)
    \/ RefundPayment(s, w)
    \/ GetPaymentStatus(s, w)
    \/ ListSavedCards(s, w)
    \/ ChargeSavedCard(s, w)
    \/ DeleteSavedCard(s, w)

\* NumSlots requests served concurrently, thin inputs.
Next == \E s \in Slots : Serve(s, "thin")
Spec == Init /\ [][Next]_vars

\* Sequences of 3DS calls over NumIds identifiers, one at a time.
FlowNext == Init3dsPayment(1, "flow") \/ Complete3dsPayment(1, "flow")
FlowSpec == Init /\ [][FlowNext]_vars

\* One request at a time, wide inputs.
WideNext == Serve(1, "wide")
WideSpec == Init /\ [][WideNext]_vars

\* ------------------------------------------------------------- properties
\* What the formulas below read of a slot.
Called(s) == pc[s] \in {"called", "done"} /\ calls[s] >= 1
Served(s) == pc[s] = "done" /\ calls[s] >= 1
Rejected(s) == pc[s] = "done" /\ response[s].kind = "RequestValidationError"
Payload(s) == sent[s].iyzico_request

\* The processor's reply as a structured value, when it answered one (as such
\* or as JSON text).
Answered(out) == out.k = "value" /\ (out.v.t = "str" => "j" \in DOMAIN out.v)
Parsed(out) == IF out.v.t = "str" THEN out.v.j ELSE out.v
AnsweredDict(out) == Answered(out) /\ Parsed(out).t = "dict"
ReplyDict(out) == Parsed(out).d
ReplyStatus(out) == Get(ReplyDict(out), "status", None)

IsEnvelope(r) ==
    /\ r.kind = "HTTPException"
    /\ {"success", "errorCode", "errorMessage"} \subseteq DOMAIN r.detail
    /\ r.detail.success = FALSE

IsServerError(r, msg) ==
    /\ r.code = 500
    /\ IsEnvelope(r)
    /\ r.detail.errorCode = Str("server_error")
    /\ r.detail.errorMessage = msg

\* C1: in each of the nine operations, a processor reply whose status is not
\* "success" ends in a client error (400), never a server error; an exception
\* raised by the processor call, by the deserialization of its reply or by the
\* normalization ends in a 500 whose errorCode is "server_error" and whose
\* errorMessage is the exception's description.
C1_ErrorClassification ==
    \A s \in Slots : Served(s) =>
        LET out == outcome[s]
            r == response[s]
        IN  /\ (AnsweredDict(out) /\ ReplyStatus(out) # Str("success"))
                  => (r.code = 400 /\ r.kind = "HTTPException")
            /\ out.k = "raise" => IsServerError(r, out.msg)
            /\ (out.k = "value" /\ out.v = BadJson)
                  => IsServerError(r, json_loads(BadJson).msg)
            /\ (Answered(out) /\ ~AnsweredDict(out))
                  => IsServerError(r, AttributeError.msg)
            /\ (AnsweredDict(out) /\ ReplyStatus(out) = Str("success")
                /\ op[s] \in {"create_payment", "complete_3ds_payment",
                              "charge_saved_card", "refund_payment"}
                /\ ~float(Get(ReplyDict(out), "price", PyInt(0))).ok)
                  => IsServerError(r, float(Get(ReplyDict(out), "price", PyInt(0))).msg)
            /\ r.code \in {200, 400, 500}
            /\ r.code = 500 => (IsEnvelope(r) /\ r.detail.errorCode = Str("server_error")
                                /\ r.detail.errorMessage.t = "str")

\* C1 witness: a refund whose reply is a str that is no JSON ended in the 500
\* carrying the decoder's message.
C1_Witness ==
    \E s \in Slots :
        /\ Served(s)
        /\ op[s] = "refund_payment"
        /\ outcome[s] = Value(BadJson)
        /\ IsServerError(response[s], json_loads(BadJson).msg)

\* C1 second witness state: a delete-card reply with status "failure" ended
\* in a 400.
C1_WitnessFailure ==
    \E s \in Slots :
        /\ Served(s)
        /\ op[s] = "delete_saved_card"
        /\ AnsweredDict(outcome[s])
        /\ ReplyStatus(outcome[s]) = Str("failure")
        /\ response[s].code = 400

\* C2: every error outcome of every operation (validation error, business
\* rejection, integration failure) carries success=false with an errorCode
\* and an errorMessage.
C2_UniformEnvelope ==
    \A s \in Slots :
        (pc[s] = "done" /\ response[s].code >= 400) => IsEnvelope(response[s])

\* C2, the part the handlers decide: every error a handler itself raises
\* carries the envelope.
C2_HandlerErrorsCarryEnvelope ==
    \A s \in Slots :
        (Served(s) /\ response[s].code >= 400) => IsEnvelope(response[s])

\* C3: a request that passes validation makes exactly one processor call,
\* whatever the call's outcome; a request that fails validation (such as
\* query-installments with a binNumber shorter than 6 or longer than 8, or
\* amount <= 0) makes none.
C3_ExactlyOneCall ==
    \A s \in Slots : pc[s] # "idle" =>
        /\ calls[s] \in {0, 1}
        /\ calls[s] = 0 <=> Rejected(s)
        /\ calls[s] = 1 <=> sent[s] # Nil
        /\ (pc[s] = "done" /\ ~Rejected(s)) => (calls[s] = 1 /\ outcome[s] # Nil)
        /\ (op[s] = "get_installments" /\ "binNumber" \in DOMAIN args[s]
            /\ "amount" \in DOMAIN args[s])
              => (calls[s] = 1 <=> /\ Len(args[s]["binNumber"].c) >= 6
                                   /\ Len(args[s]["binNumber"].c) <= 8
                                   /\ args[s]["amount"].h > 0)
        /\ Missing(args[s], CASE op[s] \in {"create_payment", "init_3ds_payment"}
                                   -> {"orderId", "amount"}
                              [] op[s] = "refund_payment" -> {"transactionId", "amount"}
                              [] op[s] = "complete_3ds_payment" -> {"transactionId"}
                              [] op[s] = "list_saved_cards" -> {"cardUserKey"}
                              [] op[s] = "delete_saved_card" -> {"cardUserKey"}
                              [] OTHER -> {}) # {}
              => calls[s] = 0

\* C3 witness: a query-installments with a 5-digit binNumber was rejected with
\* no call made.
C3_Witness ==
    \E s \in Slots :
        /\ Rejected(s)
        /\ op[s] = "get_installments"
        /\ "binNumber" \in DOMAIN args[s]
        /\ Len(args[s]["binNumber"].c) = 5
        /\ calls[s] = 0

\* C3 second witness state: a call that raised was made once and not retried.
C3_WitnessRaise ==
    \E s \in Slots : Served(s) /\ outcome[s].k = "raise" /\ calls[s] = 1

\* A value the processor supplied: present, not null, not the empty string.
Supplied(d, k) == k \in DOMAIN d /\ Truthy(d[k])

DefaultErrorCode(o) ==
    CASE o = "init_3ds_payment" -> Str("3ds_init_failed")
      [] o = "get_installments" -> Str("no_installments")
      [] o = "refund_payment" -> Str("refund_failed")
      [] o = "get_payment_status" -> Str("status_check_failed")
      [] o = "list_saved_cards" -> Str("cards_list_failed")
      [] o = "delete_saved_card" -> Str("card_delete_failed")
      [] OTHER -> Str("unknown")

\* C4: on the failure branch the errorCode and errorMessage are the
\* processor's when it supplied them and otherwise the operation's default
\* errorCode; whatever the failure reply (errorCode missing, null or ""), the
\* client never receives an empty or null error identifier.
C4_ErrorIdentifierNeverEmpty ==
    \A s \in Slots : (Served(s) /\ response[s].code = 400) =>
        LET d == ReplyDict(outcome[s])
            e == response[s].detail
        IN  /\ Supplied(d, "errorCode") => e.errorCode = d["errorCode"]
            /\ Supplied(d, "errorMessage") => e.errorMessage = d["errorMessage"]
            /\ ~Supplied(d, "errorCode") => e.errorCode = DefaultErrorCode(op[s])
            /\ e.errorCode.t = "str"
            /\ Truthy(e.errorCode)

\* C4, what the code does: the default replaces only a missing key; a key the
\* processor sent is carried through whatever its value.
C4_DefaultOnlyWhenKeyMissing ==
    \A s \in Slots : (Served(s) /\ response[s].code = 400) =>
        LET d == ReplyDict(outcome[s])
            e == response[s].detail
        IN  /\ "errorCode" \in DOMAIN d => e.errorCode = d["errorCode"]
            /\ "errorCode" \notin DOMAIN d => e.errorCode = DefaultErrorCode(op[s])
            /\ "errorMessage" \in DOMAIN d => e.errorMessage = d["errorMessage"]

\* Whether the callback payload of a complete-3DS request carries a paymentId.
CarriesPaymentId(a) ==
    /\ "callbackData" \in DOMAIN a
    /\ a["callbackData"].t = "dict"
    /\ "paymentId" \in DOMAIN a["callbackData"].d

\* C5: the confirmation payload of complete-3DS has conversationId equal to
\* the request's transactionId, paymentId equal to callbackData.paymentId
\* whenever the callback payload carries one, and paymentId taken from
\* transactionId exactly when callbackData is absent or omits paymentId.
C5_CompletePayloadKey ==
    \A s \in Slots : (Called(s) /\ op[s] = "complete_3ds_payment") =>
        /\ Payload(s).conversationId = args[s]["transactionId"]
        /\ CarriesPaymentId(args[s])
              => Payload(s).paymentId = args[s]["callbackData"].d["paymentId"]
        /\ ~CarriesPaymentId(args[s])
              => Payload(s).paymentId = args[s]["transactionId"]
        /\ Payload(s).paymentId = args[s]["transactionId"]
              => \/ ~CarriesPaymentId(args[s])
                 \/ args[s]["callbackData"].d["paymentId"] = args[s]["transactionId"]

\* C5 witness: transactionId "T1" with callbackData {paymentId: "P9"} was sent
\* keyed on "P9".
C5_Witness ==
    \E s \in Slots :
        /\ Called(s)
        /\ op[s] = "complete_3ds_payment"
        /\ args[s]["transactionId"] = Str("T1")
        /\ CarriesPaymentId(args[s])
        /\ args[s]["callbackData"].d["paymentId"] = Str("P9")
        /\ Payload(s).paymentId = Str("P9")
        /\ Payload(s).conversationId = Str("T1")

\* C5 second witness state: an empty callbackData fell back to transactionId.
C5_WitnessFallback ==
    \E s \in Slots :
        /\ Called(s)
        /\ op[s] = "complete_3ds_payment"
        /\ "callbackData" \in DOMAIN args[s]
        /\ args[s]["callbackData"] = EmptyDict
        /\ Payload(s).paymentId = args[s]["transactionId"]

\* Whether a PaymentRequest supplies a paidPrice (the field is Optional: it
\* may be left out or sent as null).
SuppliesPaidPrice(a) == "paidPrice" \in DOMAIN a /\ a["paidPrice"] # None

\* C7: the payload's paidPrice is the rendering of the request's paidPrice
\* whenever the request supplies one (any value >= 0, 0 included), and the
\* rendering of amount exactly when the request omits it.
C7_PaidPricePassThrough ==
    \A s \in Slots : (Called(s) /\ op[s] \in {"create_payment", "init_3ds_payment"}) =>
        Payload(s).paidPrice =
            IF SuppliesPaidPrice(args[s]) THEN str_float(args[s]["paidPrice"])
            ELSE str_float(args[s]["amount"])

\* C7, what the code does: a supplied paidPrice of 0 is replaced by amount.
C7_ZeroPaidPriceReplaced ==
    \A s \in Slots : (Called(s) /\ op[s] \in {"create_payment", "init_3ds_payment"}) =>
        Payload(s).paidPrice =
            IF SuppliesPaidPrice(args[s]) /\ args[s]["paidPrice"].h # 0
            THEN str_float(args[s]["paidPrice"])
            ELSE str_float(args[s]["amount"])

\* C8: mapCurrency is total; each supported currency of the domain enum (sent
\* as "tryLira", "usd", "eur", "gbp") gives its own 3-letter code, every other
\* input gives "TRY"; the payload's currency is that result.
C8_CurrencyMapping ==
    \A s \in Slots : (Called(s) /\ op[s] \in {"create_payment", "init_3ds_payment"}) =>
        LET c == Get(args[s], "currency", Str("tryLira"))
        IN  /\ c = Str("tryLira") => Payload(s).currency = Str("TRY")
            /\ c = Str("usd") => Payload(s).currency = Str("USD")
            /\ c = Str("eur") => Payload(s).currency = Str("EUR")
            /\ c = Str("gbp") => Payload(s).currency = Str("GBP")
            /\ c \notin {Str("tryLira"), Str("usd"), Str("eur"), Str("gbp")}
                  => Payload(s).currency = Str("TRY")
            /\ Payload(s).currency = map_currency(c)

\* C8 witness: an unrecognized currency ("jpy") was sent as "TRY".
C8_Witness ==
    \E s \in Slots :
        /\ Called(s)
        /\ op[s] = "create_payment"
        /\ "currency" \in DOMAIN args[s]
        /\ args[s]["currency"] = Str("jpy")
        /\ Payload(s).currency = Str("TRY")

\* C8 second witness state: "eur" was sent as "EUR".
C8_WitnessSupported ==
    \E s \in Slots :
        /\ Called(s)
        /\ "currency" \in DOMAIN args[s]
        /\ args[s]["currency"] = Str("eur")
        /\ Payload(s).currency = Str("EUR")

\* A success reply that echoes the price and paidPrice strings of the payload.
EchoesPayload(s) ==
    /\ AnsweredDict(outcome[s])
    /\ ReplyStatus(outcome[s]) = Str("success")
    /\ {"price", "paidPrice"} \subseteq DOMAIN ReplyDict(outcome[s])
    /\ ReplyDict(outcome[s])["price"] = Payload(s).price
    /\ ReplyDict(outcome[s])["paidPrice"] = Payload(s).paidPrice

\* C9: round trip: when the success reply echoes the payload's price and
\* paidPrice strings, the PaymentResult has amount equal to the request's
\* amount and paidAmount equal to the request's paidPrice (amount when the
\* request omitted paidPrice).
C9_RoundTrip ==
    \A s \in Slots : (Served(s) /\ op[s] = "create_payment" /\ EchoesPayload(s)) =>
        /\ response[s].code = 200
        /\ response[s].detail.amount = args[s]["amount"]
        /\ response[s].detail.paidAmount =
              IF SuppliesPaidPrice(args[s]) THEN args[s]["paidPrice"]
              ELSE args[s]["amount"]

\* C9, what the code does: the round trip is exact for amount, and for
\* paidPrice but for a supplied paidPrice of 0.
C9_RoundTripButZero ==
    \A s \in Slots : (Served(s) /\ op[s] = "create_payment" /\ EchoesPayload(s)) =>
        /\ response[s].code = 200
        /\ response[s].detail.amount = args[s]["amount"]
        /\ response[s].detail.paidAmount =
              IF SuppliesPaidPrice(args[s]) /\ args[s]["paidPrice"].h # 0
              THEN args[s]["paidPrice"]
              ELSE args[s]["amount"]

\* C6: the 3DS handshake keeps no session state here: in any sequence of
\* init-3DS and complete-3DS calls a complete-3DS is forwarded to the
\* processor whether or not an init-3DS for its transactionId came before and
\* whether or not it was completed already; a completion the processor
\* rejects ends in the client-error envelope; init-3DS reports "pending",
\* with transactionId the processor's conversationId, only when the processor
\* replied "success".
C6_StatelessHandshake ==
    /\ \A s \in Slots :
          (pc[s] # "idle" /\ op[s] = "complete_3ds_payment"
           /\ "transactionId" \in DOMAIN args[s])
             => /\ calls[s] = 1
                /\ Payload(s).conversationId = args[s]["transactionId"]
                /\ sent[s].options = LoadedOptions
    /\ \A s \in Slots :
          (Served(s) /\ op[s] = "complete_3ds_payment" /\ AnsweredDict(outcome[s])
           /\ ReplyStatus(outcome[s]) # Str("success"))
             => (response[s].code = 400 /\ IsEnvelope(response[s]))
    /\ \A s \in Slots :
          (Served(s) /\ op[s] = "init_3ds_payment")
             => IF AnsweredDict(outcome[s]) /\ ReplyStatus(outcome[s]) = Str("success")
                THEN /\ response[s].kind = "return"
                     /\ response[s].detail.status = Str("pending")
                     /\ response[s].detail.transactionId =
                           Get(ReplyDict(outcome[s]), "conversationId", None)
                ELSE response[s].kind # "return"
    /\ pc[1] \in {"idle", "done"} => ENABLED Receive(1, "complete_3ds_payment", "flow")

\* C6 witness: a completion of a transaction already completed (a replay) was
\* forwarded, the processor rejected it, and the caller got the 400 envelope.
C6_Witness ==
    \E s \in Slots :
        /\ Served(s)
        /\ op[s] = "complete_3ds_payment"
        /\ sessions[args[s]["transactionId"]] = "completed"
        /\ calls[s] = 1
        /\ response[s].code = 400
        /\ IsEnvelope(response[s])

\* C6 second witness state: a completion of a transaction no init-3DS was
\* ever made for was forwarded.
C6_WitnessUnknown ==
    \E s \in Slots :
        /\ Called(s)
        /\ op[s] = "complete_3ds_payment"
        /\ sessions[args[s]["transactionId"]] = "none"
        /\ \A id \in Ids : sessions[id] = "none"

\* C10: under any interleaving of concurrent operations, several referring to
\* the same transactionId, card or token included, each operation's processor
\* call and response are determined by its own request and its own processor
\* reply alone, and the merchant credentials stay as loaded at start-up.
C10_Isolation ==
    /\ options = LoadedOptions
    /\ \A s \in Slots : sent[s] # Nil =>
          /\ sent[s].options = LoadedOptions
          /\ \E now \in Clock("thin") :
                Payload(s) = BuildRequest(op[s], Validate(op[s], args[s]).v, now)
    /\ \A s \in Slots : Served(s) => response[s] = Respond(op[s], outcome[s])
    /\ \A s \in Slots : Rejected(s) =>
          response[s] = RequestValidationError(Validate(op[s], args[s]).loc)
    /\ \A s, t \in Slots :
          (Served(s) /\ Served(t) /\ op[s] = op[t] /\ args[s] = args[t]
           /\ outcome[s] = outcome[t])
             => response[s] = response[t]

\* C10 witness: two concurrent refunds of the same transaction, one accepted
\* and one rejected by the processor, each answered by its own reply.
C10_Witness ==
    \E s, t \in Slots :
        /\ s # t
        /\ Served(s) /\ Served(t)
        /\ op[s] = "refund_payment" /\ op[t] = "refund_payment"
        /\ args[s] = args[t]
        /\ response[s].code = 200
        /\ response[t].code = 400

\* The money and card fields the success branch of operation o returns, as
\* <<envelope field, processor field>>.
MoneyKeys(o) ==
    IF o = "refund_payment" THEN {<<"refundedAmount", "price">>}
    ELSE {<<"amount", "price">>, <<"paidAmount", "paidPrice">>}

OptionalKeys(o) ==
    IF o = "refund_payment" THEN {}
    ELSE {<<"installment", "installment">>, <<"cardType", "cardType">>,
          <<"cardAssociation", "cardAssociation">>, <<"binNumber", "binNumber">>,
          <<"lastFourDigits", "lastFourDigits">>}

IsNumeral(v) == v.t = "str" /\ "c" \in DOMAIN v /\ ParseDecimal(v.c).ok

\* The number a money field stands for: the processor's numeral, or 0 when
\* the processor left the field absent or null.
MoneyValue(d, k) ==
    IF k \notin DOMAIN d \/ d[k] = None THEN Float(0) ELSE ParseDecimal(d[k].c).v

\* A "success" reply of a dict to one of the four operations whose money
\* fields are each within the set allowed: a numeral, or one of `gaps`.
MoneyReply(s, gaps) ==
    /\ Served(s)
    /\ op[s] \in {"create_payment", "complete_3ds_payment", "charge_saved_card",
                  "refund_payment"}
    /\ AnsweredDict(outcome[s])
    /\ ReplyStatus(outcome[s]) = Str("success")
    /\ \A k \in MoneyKeys(op[s]) :
          \/ "absent" \in gaps /\ k[2] \notin DOMAIN ReplyDict(outcome[s])
          \/ /\ k[2] \in DOMAIN ReplyDict(outcome[s])
             /\ \/ "null" \in gaps /\ ReplyDict(outcome[s])[k[2]] = None
                \/ IsNumeral(ReplyDict(outcome[s])[k[2]])

\* The success envelope of slot s carries every money field as the number it
\* stands for and every absent optional field as null.
MoneyEnvelope(s) ==
    /\ response[s].code = 200
    /\ response[s].detail.success = TRUE
    /\ \A k \in MoneyKeys(op[s]) :
          response[s].detail[k[1]] = MoneyValue(ReplyDict(outcome[s]), k[2])
    /\ \A k \in OptionalKeys(op[s]) :
          response[s].detail[k[1]] = Get(ReplyDict(outcome[s]), k[2], None)

\* C11: on the success branch of create-payment, complete-3DS,
\* charge-saved-card and refund the money fields of the envelope are always
\* numbers: the value of the processor's string when supplied, 0 when the
\* processor left the field absent or null; absent optional fields are null;
\* a missing money field never turns a processor success into an error.
C11_MoneyFieldsAlwaysNumbers ==
    \A s \in Slots : MoneyReply(s, {"absent", "null"}) => MoneyEnvelope(s)

\* C11, what the code does: the default 0 replaces a money field only when
\* its key is absent; with every money field a numeral or absent the success
\* envelope is as stated.
C11_MoneyDefaultOnlyWhenKeyMissing ==
    \A s \in Slots : MoneyReply(s, {"absent"}) => MoneyEnvelope(s)

\* C11, the divergence: a "success" reply with a null money field ends in the
\* server error of float(None).
C11_NullMoneyIsServerError ==
    \A s \in Slots :
        (MoneyReply(s, {"absent", "null"}) /\ ~MoneyReply(s, {"absent"}))
           => /\ response[s].code = 500
              /\ response[s].detail.errorCode = Str("server_error")

=============================================================================
